---- MODULE Spec2Model ----
(***************************************************************************)
(* DocGen: the text-to-layout classifier PDFGenerator._format_content of   *)
(* src/docgen/services/pdf_generator.py, with the normalizer               *)
(* clean_ai_output it calls first.                                         *)
(*                                                                         *)
(* A text is a sequence of one-character strings.  The characters U+2022   *)
(* (the bullet) and U+0060 (the backquote) are written "U+2022" and        *)
(* "U+0060".                                                               *)
(***************************************************************************)
EXTENDS Integers, Sequences, FiniteSets, TLC

\* pc        where the program is: "client" (in the clean_ai_output call of
\*           the provider client), "start" (in the clean_ai_output call of
\*           _format_content), "scan" (the outer loop), "done"
\* response  the text the provider returned, when the text comes from the
\*           provider client; otherwise the text given to generate_pdf
\* title     the title given to generate_pdf
\* document  the story of generate_pdf
\* content   the text given to _format_content
\* text      the local text of clean_ai_output
\* sub       the number of re.sub calls clean_ai_output has made
\* lines     content.split("\n") after clean_ai_output
\* i         the line cursor (0-based, as in the code)
\* story     the flowables appended so far
\* iter_start, iter_rule
\*           history: the value of i at the start of the last iteration of
\*           the outer loop, and the branch that iteration took
VARIABLES pc, response, title, document, content, text, sub, lines, i, story, iter_start, iter_rule

\* The service around the generator (routers/document.py and the provider
\* clients):
\* UPLOADS   the registry of uploads: upload_id -> record
\* JOBS      the registry of jobs: job_id -> record
\* GENERATED_PDFS
\*           the registry of stored documents: job_id -> record
\* tasks     the background tasks: job_id -> position and locals of
\*           _generate_task
\* served    history: the job ids download_pdf has answered with a file
\* requests  the upload_files requests: position and locals of each
\* long      the frame of generate_long_content: position and locals
VARIABLES UPLOADS, JOBS, GENERATED_PDFS, tasks, served, requests, long

docVars == <<pc, response, title, document, content, text, sub, lines, i, story, iter_start, iter_rule>>

serviceVars == <<UPLOADS, JOBS, GENERATED_PDFS, tasks, served, requests, long>>

vars == <<docVars, serviceVars>>

\* ------------------------------------------------------------------------
\* Bounds
\* ------------------------------------------------------------------------

\* The largest number of lines of an input text.
MaxLines == 2

\* ------------------------------------------------------------------------
\* Characters and the str methods the code uses
\* ------------------------------------------------------------------------

Bullet == "U+2022"

Backtick == "U+0060"

UpperChars ==
    {"A", "B", "C", "D", "E", "F", "G", "H", "I", "J", "K", "L", "M",
     "N", "O", "P", "Q", "R", "S", "T", "U", "V", "W", "X", "Y", "Z"}

LowerChars ==
    {"a", "b", "c", "d", "e", "f", "g", "h", "i", "j", "k", "l", "m",
     "n", "o", "p", "q", "r", "s", "t", "u", "v", "w", "x", "y", "z"}

DigitChars == {"0", "1", "2", "3", "4", "5", "6", "7", "8", "9"}

\* \s of the re module, and what str.strip() removes.
Whitespace == {" ", "\t", "\n"}

\* \w of the re module.
WordChars == UpperChars \cup LowerChars \cup DigitChars \cup {"_"}

\* The least and the greatest member of a non-empty set of integers.
MinOf(S) == CHOOSE k \in S : \A j \in S : k <= j

MaxOf(S) == CHOOSE k \in S : \A j \in S : j <= k

\* str.strip()
strip(s) ==
    LET keep == {k \in 1..Len(s) : s[k] \notin Whitespace}
    IN  IF keep = {} THEN <<>> ELSE SubSeq(s, MinOf(keep), MaxOf(keep))

\* str.count(c) for a single character c
count(s, c) == Cardinality({k \in 1..Len(s) : s[k] = c})

\* c in s
contains(s, c) == \E k \in 1..Len(s) : s[k] = c

\* str.startswith(p)
startswith(s, p) == Len(s) >= Len(p) /\ SubSeq(s, 1, Len(p)) = p

\* str.endswith(c) for a single character c
endswith(s, c) == Len(s) >= 1 /\ s[Len(s)] = c

\* str.isupper(): at least one cased character and no lower-case one.
isupper(s) ==
    /\ \E k \in 1..Len(s) : s[k] \in UpperChars
    /\ \A k \in 1..Len(s) : s[k] \notin LowerChars

\* str.split(c) for a single character c
RECURSIVE split(_, _)
split(s, c) ==
    IF ~contains(s, c)
    THEN <<s>>
    ELSE LET p == MinOf({k \in 1..Len(s) : s[k] = c})
         IN  <<SubSeq(s, 1, p - 1)>> \o split(SubSeq(s, p + 1, Len(s)), c)

\* sep.join(parts) for a single character sep
RECURSIVE join(_, _)
join(parts, sep) ==
    IF parts = <<>> THEN <<>>
    ELSE IF Len(parts) = 1 THEN parts[1]
    ELSE parts[1] \o <<sep>> \o join(Tail(parts), sep)

\* str.lower() and str.upper() of one character
UpperSeq ==
    <<"A", "B", "C", "D", "E", "F", "G", "H", "I", "J", "K", "L", "M",
      "N", "O", "P", "Q", "R", "S", "T", "U", "V", "W", "X", "Y", "Z">>

LowerSeq ==
    <<"a", "b", "c", "d", "e", "f", "g", "h", "i", "j", "k", "l", "m",
      "n", "o", "p", "q", "r", "s", "t", "u", "v", "w", "x", "y", "z">>

lower(c) ==
    IF c \in UpperChars
    THEN LowerSeq[CHOOSE k \in 1..Len(UpperSeq) : UpperSeq[k] = c]
    ELSE c

upper(c) ==
    IF c \in LowerChars
    THEN UpperSeq[CHOOSE k \in 1..Len(LowerSeq) : LowerSeq[k] = c]
    ELSE c

\* ------------------------------------------------------------------------
\* clean_ai_output: nineteen re.sub calls, then str.strip()
\* ------------------------------------------------------------------------

\* A match of a pattern at a position: the position after the match and the
\* replacement text; end = 0 when the pattern does not match there.
NoMatch == [end |-> 0, repl |-> <<>>]

\* re.sub: the text from position p on, with the leftmost non-overlapping
\* matches replaced; m[q] is the match at position q.  No pattern of
\* clean_ai_output matches the empty string.
RECURSIVE Replace(_, _, _)
Replace(t, m, p) ==
    LET starts == {q \in p..Len(t) : m[q].end > 0}
    IN  IF starts = {} THEN SubSeq(t, p, Len(t))
        ELSE LET q == MinOf(starts)
             IN  SubSeq(t, p, q - 1) \o m[q].repl \o Replace(t, m, m[q].end)

\* ^ and $ under re.MULTILINE, at position p.
AtLineStart(t, p) == p = 1 \/ t[p - 1] = "\n"

AtLineEnd(t, p) == p = Len(t) + 1 \/ t[p] = "\n"

\* The word w is in t at position p; PrefixAtCI under re.IGNORECASE.
PrefixAt(t, p, w) ==
    /\ p + Len(w) - 1 <= Len(t)
    /\ \A k \in 1..Len(w) : t[p + k - 1] = w[k]

PrefixAtCI(t, p, w) ==
    /\ p + Len(w) - 1 <= Len(t)
    /\ \A k \in 1..Len(w) : lower(t[p + k - 1]) = w[k]

\* The position after the longest run, from position p, of characters of S,
\* and of characters not of S.
RunEnd(t, p, S) ==
    MinOf({q \in p..(Len(t) + 1) : q = Len(t) + 1 \/ t[q] \notin S})

RunEndNot(t, p, S) ==
    MinOf({q \in p..(Len(t) + 1) : q = Len(t) + 1 \/ t[q] \in S})

\* (Okay|Sure|Of course|Certainly|Here('s| is| are)|I('ll| will| can| have)|Let me)
OpeningPhrases ==
    { <<"o", "k", "a", "y">>,
      <<"s", "u", "r", "e">>,
      <<"o", "f", " ", "c", "o", "u", "r", "s", "e">>,
      <<"c", "e", "r", "t", "a", "i", "n", "l", "y">>,
      <<"h", "e", "r", "e", "'", "s">>,
      <<"h", "e", "r", "e", " ", "i", "s">>,
      <<"h", "e", "r", "e", " ", "a", "r", "e">>,
      <<"i", "'", "l", "l">>,
      <<"i", " ", "w", "i", "l", "l">>,
      <<"i", " ", "c", "a", "n">>,
      <<"i", " ", "h", "a", "v", "e">>,
      <<"l", "e", "t", " ", "m", "e">> }

\* Based on (the|your)
BasedOnPhrases ==
    { <<"b", "a", "s", "e", "d", " ", "o", "n", " ", "t", "h", "e">>,
      <<"b", "a", "s", "e", "d", " ", "o", "n", " ", "y", "o", "u", "r">> }

\* This (document|report|summary)
ThisPhrases ==
    { <<"t", "h", "i", "s", " ", "d", "o", "c", "u", "m", "e", "n", "t">>,
      <<"t", "h", "i", "s", " ", "r", "e", "p", "o", "r", "t">>,
      <<"t", "h", "i", "s", " ", "s", "u", "m", "m", "a", "r", "y">> }

\* ^(phrase)[^.]*[.:!]\s* at position p.  [^.]* runs to the next "."; when
\* the text has none it gives back to the last ":" or "!".
MatchPreamble(t, p, phrases) ==
    IF ~AtLineStart(t, p) \/ \A w \in phrases : ~PrefixAtCI(t, p, w)
    THEN NoMatch
    ELSE LET w == CHOOSE w \in phrases : PrefixAtCI(t, p, w)
             q == p + Len(w)
             dot == RunEndNot(t, q, {"."})
             marks == {j \in q..Len(t) : t[j] \in {":", "!"}}
         IN  IF dot <= Len(t)
             THEN [end |-> RunEnd(t, dot + 1, Whitespace), repl |-> <<>>]
             ELSE IF marks # {}
             THEN [end |-> RunEnd(t, MaxOf(marks) + 1, Whitespace), repl |-> <<>>]
             ELSE NoMatch

SubPreamble(t, phrases) ==
    Replace(t, [p \in 1..Len(t) |-> MatchPreamble(t, p, phrases)], 1)

\* ccc+\s* at position p, for the character c of a horizontal rule.
MatchRule(t, p, c) ==
    IF PrefixAt(t, p, <<c, c, c>>)
    THEN [end |-> RunEnd(t, RunEnd(t, p, {c}), Whitespace), repl |-> <<>>]
    ELSE NoMatch

\* re.sub(r"---+\s*", "", text) and re.sub(r"\*\*\*+\s*", "", text)
SubRule(t, c) == Replace(t, [p \in 1..Len(t) |-> MatchRule(t, p, c)], 1)

\* A heading pattern ^marker\s+(group+?)(:?)?\s*$ at position p, where the
\* group is of characters of inside (a set) or, with except = TRUE, of
\* characters not of it.  The candidates are (g, j, x): the group is
\* t[g..j-1], the match ends before x.  \s+ is greedy (the greatest g), the
\* group lazy (the least j), the colon is taken when there is one and must
\* be taken when colon = "required" ("none": the pattern has no colon), the
\* last \s* is greedy (the greatest x).
HeadingCandidates(t, p, marker, inside, except, colon) ==
    LET a == p + Len(marker)
    IN  IF ~(AtLineStart(t, p) /\ PrefixAt(t, p, marker))
        THEN {}
        ELSE {c \in [g : (a + 1)..RunEnd(t, a, Whitespace),
                     j : (a + 2)..(Len(t) + 1),
                     x : (a + 2)..(Len(t) + 1)] :
                /\ c.g < c.j
                /\ \A k \in c.g..(c.j - 1) : (t[k] \in inside) # except
                /\ LET taken == colon # "none" /\ c.j <= Len(t) /\ t[c.j] = ":"
                       after == IF taken THEN c.j + 1 ELSE c.j
                   IN  /\ colon = "required" => taken
                       /\ c.x >= after
                       /\ c.x <= RunEnd(t, after, Whitespace)
                       /\ AtLineEnd(t, c.x)}

FirstCandidate(C) ==
    CHOOSE c \in C :
        \A d \in C :
            \/ c.g > d.g
            \/ c.g = d.g /\ c.j < d.j
            \/ c.g = d.g /\ c.j = d.j /\ c.x >= d.x

\* re.sub(r"^###\s+([^\n]+?):\s*$", r"\1:", text, flags=re.MULTILINE)
MatchH3Colon(t, p) ==
    LET C == HeadingCandidates(t, p, <<"#", "#", "#">>, {"\n"}, TRUE, "required")
    IN  IF C = {} THEN NoMatch
        ELSE [end |-> FirstCandidate(C).x,
              repl |-> SubSeq(t, FirstCandidate(C).g, FirstCandidate(C).j - 1) \o <<":">>]

\* re.sub(r"^###\s+([A-Z\s&]+?)(:?)?\s*$",
\*        lambda m: m.group(1).upper() + (":" if m.group(2) else ""), ...)
MatchH3Upper(t, p) ==
    LET C == HeadingCandidates(t, p, <<"#", "#", "#">>,
                               UpperChars \cup Whitespace \cup {"&"}, FALSE, "optional")
        c == FirstCandidate(C)
        g1 == SubSeq(t, c.g, c.j - 1)
    IN  IF C = {} THEN NoMatch
        ELSE [end |-> c.x,
              repl |-> [k \in 1..Len(g1) |-> upper(g1[k])] \o
                       (IF c.j <= Len(t) /\ t[c.j] = ":" THEN <<":">> ELSE <<>>)]

\* re.sub(r"^##\s+([^\n]+?)(:?)?\s*$",
\*        lambda m: m.group(1) + (":" if m.group(2) else ":"), ...)
MatchH2(t, p) ==
    LET C == HeadingCandidates(t, p, <<"#", "#">>, {"\n"}, TRUE, "optional")
        c == FirstCandidate(C)
    IN  IF C = {} THEN NoMatch
        ELSE [end |-> c.x, repl |-> SubSeq(t, c.g, c.j - 1) \o <<":">>]

\* re.sub(r"^#\s+([^\n:]+?)\s*$", lambda m: m.group(1).upper(), ...)
MatchH1(t, p) ==
    LET C == HeadingCandidates(t, p, <<"#">>, {"\n", ":"}, TRUE, "none")
        c == FirstCandidate(C)
        g1 == SubSeq(t, c.g, c.j - 1)
    IN  IF C = {} THEN NoMatch
        ELSE [end |-> c.x, repl |-> [k \in 1..Len(g1) |-> upper(g1[k])]]

\* re.sub(r"^#{1,6}\s*", "", text, flags=re.MULTILINE)
MatchHashes(t, p) ==
    IF AtLineStart(t, p) /\ t[p] = "#"
    THEN LET run == RunEnd(t, p, {"#"})
             stop == IF run - p > 6 THEN p + 6 ELSE run
         IN  [end |-> RunEnd(t, stop, Whitespace), repl |-> <<>>]
    ELSE NoMatch

SubH3Colon(t) == Replace(t, [p \in 1..Len(t) |-> MatchH3Colon(t, p)], 1)

SubH3Upper(t) == Replace(t, [p \in 1..Len(t) |-> MatchH3Upper(t, p)], 1)

SubH2(t) == Replace(t, [p \in 1..Len(t) |-> MatchH2(t, p)], 1)

SubH1(t) == Replace(t, [p \in 1..Len(t) |-> MatchH1(t, p)], 1)

SubHashes(t) == Replace(t, [p \in 1..Len(t) |-> MatchHashes(t, p)], 1)

\* cc([^c]+)cc at position p: strong emphasis with the delimiter c.
MatchBold(t, p, c) ==
    LET k == RunEndNot(t, p + 2, {c})
    IN  IF PrefixAt(t, p, <<c, c>>) /\ k > p + 2 /\ PrefixAt(t, k, <<c, c>>)
        THEN [end |-> k + 2, repl |-> SubSeq(t, p + 2, k - 1)]
        ELSE NoMatch

\* (?<!c)c(?!c)([^c]+)(?<!c)c(?!c) at position p: emphasis with the
\* delimiter c.
MatchItalic(t, p, c) ==
    LET k == RunEndNot(t, p + 1, {c})
    IN  IF /\ t[p] = c
           /\ (p = 1 \/ t[p - 1] # c)
           /\ k > p + 1
           /\ k <= Len(t)
           /\ (k = Len(t) \/ t[k + 1] # c)
        THEN [end |-> k + 1, repl |-> SubSeq(t, p + 1, k - 1)]
        ELSE NoMatch

\* Lines 118-119 (c is "*", then "_") and lines 122-123 (the same).
SubBold(t, c) == Replace(t, [p \in 1..Len(t) |-> MatchBold(t, p, c)], 1)

SubItalic(t, c) == Replace(t, [p \in 1..Len(t) |-> MatchItalic(t, p, c)], 1)

\* The pattern of line 126 at position p: a backquote, one or more
\* characters that are not backquotes, a backquote.
MatchInlineCode(t, p) ==
    LET k == RunEndNot(t, p + 1, {Backtick})
    IN  IF t[p] = Backtick /\ k > p + 1 /\ k <= Len(t)
        THEN [end |-> k + 1, repl |-> SubSeq(t, p + 1, k - 1)]
        ELSE NoMatch

\* The pattern of line 129 at position p: three backquotes, the shortest
\* text, three backquotes.
MatchCodeBlock(t, p) ==
    LET fence == <<Backtick, Backtick, Backtick>>
        closes == {q \in (p + 3)..Len(t) : PrefixAt(t, q, fence)}
    IN  IF PrefixAt(t, p, fence) /\ closes # {}
        THEN [end |-> MinOf(closes) + 3, repl |-> <<>>]
        ELSE NoMatch

SubInlineCode(t) == Replace(t, [p \in 1..Len(t) |-> MatchInlineCode(t, p)], 1)

SubCodeBlock(t) == Replace(t, [p \in 1..Len(t) |-> MatchCodeBlock(t, p)], 1)

\* \[([^\]]+)\]\([^)]+\) at position p.
MatchLink(t, p) ==
    LET k == RunEndNot(t, p + 1, {"]"})
        m == RunEndNot(t, k + 2, {")"})
    IN  IF /\ t[p] = "["
           /\ k > p + 1
           /\ PrefixAt(t, k, <<"]", "(">>)
           /\ m > k + 2
           /\ m <= Len(t)
        THEN [end |-> m + 1, repl |-> SubSeq(t, p + 1, k - 1)]
        ELSE NoMatch

\* re.sub(r"\[([^\]]+)\]\([^)]+\)", r"\1", text)
SubLinks(t) == Replace(t, [p \in 1..Len(t) |-> MatchLink(t, p)], 1)

\* \n{3,} at position p, replaced by two line breaks.
MatchBlankLines(t, p) ==
    IF PrefixAt(t, p, <<"\n", "\n", "\n">>)
    THEN [end |-> RunEnd(t, p, {"\n"}), repl |-> <<"\n", "\n">>]
    ELSE NoMatch

\* [ \t]+ at position p, replaced by one space.
MatchSpaces(t, p) ==
    IF t[p] \in {" ", "\t"}
    THEN [end |-> RunEnd(t, p, {" ", "\t"}), repl |-> <<" ">>]
    ELSE NoMatch

SubBlankLines(t) == Replace(t, [p \in 1..Len(t) |-> MatchBlankLines(t, p)], 1)

SubSpaces(t) == Replace(t, [p \in 1..Len(t) |-> MatchSpaces(t, p)], 1)

\* The number of re.sub calls of clean_ai_output: five in the loop over
\* ai_phrases, fourteen after it.
NumSubs == 19

\* The k-th re.sub call, in the order the code makes them.
ApplySub(k, t) ==
    CASE k = 1 -> SubPreamble(t, OpeningPhrases)
      [] k = 2 -> SubPreamble(t, BasedOnPhrases)
      [] k = 3 -> SubPreamble(t, ThisPhrases)
      [] k = 4 -> SubRule(t, "-")
      [] k = 5 -> SubRule(t, "*")
      [] k = 6 -> SubH3Colon(t)
      [] k = 7 -> SubH3Upper(t)
      [] k = 8 -> SubH2(t)
      [] k = 9 -> SubH1(t)
      [] k = 10 -> SubHashes(t)
      [] k = 11 -> SubBold(t, "*")
      [] k = 12 -> SubBold(t, "_")
      [] k = 13 -> SubItalic(t, "*")
      [] k = 14 -> SubItalic(t, "_")
      [] k = 15 -> SubInlineCode(t)
      [] k = 16 -> SubCodeBlock(t)
      [] k = 17 -> SubLinks(t)
      [] k = 18 -> SubBlankLines(t)
      [] k = 19 -> SubSpaces(t)

\* The text after the first k re.sub calls.
RECURSIVE Substituted(_, _)
Substituted(t, k) == IF k = 0 THEN t ELSE ApplySub(k, Substituted(t, k - 1))

clean_ai_output(t) == strip(Substituted(t, NumSubs))

\* html.escape(text, quote=True)
RECURSIVE sanitize_text(_)
sanitize_text(t) ==
    LET special == {k \in 1..Len(t) : t[k] \in {"&", "<", ">", "\"", "'"}}
    IN  IF special = {} THEN t
        ELSE LET p == MinOf(special)
                 c == t[p]
                 e == CASE c = "&" -> <<"&", "a", "m", "p", ";">>
                        [] c = "<" -> <<"&", "l", "t", ";">>
                        [] c = ">" -> <<"&", "g", "t", ";">>
                        [] c = "\"" -> <<"&", "q", "u", "o", "t", ";">>
                        [] c = "'" -> <<"&", "#", "x", "2", "7", ";">>
                 IN  SubSeq(t, 1, p - 1) \o e
                         \o sanitize_text(SubSeq(t, p + 1, Len(t)))

\* ------------------------------------------------------------------------
\* Inputs
\* ------------------------------------------------------------------------

\* The lines an input text is made of: one line for each way through the
\* classifier.
LinePool ==
    { <<>>,
      <<"|", " ", "N", "a", "m", "e", " ", "|", " ", "A", "g", "e",
        " ", "|">>,
      <<"|", " ", "-", "-", "-", " ", "|", " ", "-", "-", "-", " ",
        "|", " ", "-", "-", "-", " ", "|">>,
      <<"|", " ", "O", "n", "l", "y", "O", "n", "e", "C", "e", "l",
        "l", " ", "|">>,
      <<"|", "a", "|", "b", "|", "c", "|">>,
      <<"|", "a", "|", "|", "c", "|">>,
      <<"N", "a", "m", "e", " ", "|", " ", "A", "g", "e">>,
      <<"|", "x", "|", "y", "|">>,
      <<"R", "E", "V", "E", "N", "U", "E", " ", "A", "N", "D", " ",
        "E", "X", "P", "E", "N", "S", "E", "S">>,
      <<"4", ".", " ", "T", "O", "T", "A", "L", " ", "C", "O", "S", "T">>,
      <<"1", ".", " ", "S", "C", "O", "P", "E">>,
      <<"1", ".", " ", "F", "i", "r", "s", "t", " ", "F", "i", "n",
        "d", "i", "n", "g">>,
      <<"1", ".", " ", "F", "i", "r", "s", "t", " ", "F", "i", "n",
        "d", "i", "n", "g", ".">>,
      <<"-", " ", "i", "t", "e", "m", " ", "o", "n", "e">>,
      <<Bullet, " ", "i", "t", "e", "m", " ", "t", "w", "o">>,
      <<"Q", "u", "a", "r", "t", "e", "r", "l", "y", " ", "R", "e",
        "v", "i", "e", "w", ":">>,
      <<"<", "s", "c", "r", "i", "p", "t", ">", "a", "l", "e", "r",
        "t", "(", "'", "x", "s", "s", "'", ")", "<", "/", "s", "c",
        "r", "i", "p", "t", ">">> }

\* Texts of more than MaxLines lines: the table of the specification's
\* example, a table cut by a blank line, a list cut by blank lines, a
\* table with a single-cell line in it, a text with a preamble and markup.
Documents ==
    { <<"|", " ", "N", "a", "m", "e", " ", "|", " ", "A", "g", "e",
        " ", "|", "\n", "|", " ", "-", "-", "-", " ", "|", " ", "-",
        "-", "-", " ", "|", "\n", "|", " ", "A", "l", "i", "c", "e",
        " ", "|", " ", "3", "0", " ", "|", "\n", "|", " ", "B", "o",
        "b", " ", "|", " ", "2", "5", " ", "|">>,
      <<"|", " ", "N", "a", "m", "e", " ", "|", " ", "A", "g", "e",
        " ", "|", "\n", "\n", "|", " ", "A", "l", "i", "c", "e", " ",
        "|", " ", "3", "0", " ", "|", "\n", "|", " ", "B", "o", "b",
        " ", "|", " ", "2", "5", " ", "|", "\n", "\n", "Q", "u", "a",
        "r", "t", "e", "r", "l", "y", " ", "R", "e", "v", "i", "e",
        "w", ":">>,
      <<"-", " ", "i", "t", "e", "m", " ", "o", "n", "e", "\n", "\n",
        "\n", "\n", "1", ".", " ", "F", "i", "r", "s", "t", " ", "F",
        "i", "n", "d", "i", "n", "g", "\n", "-", " ", "i", "t", "e",
        "m", " ", "o", "n", "e">>,
      <<"|", " ", "N", "a", "m", "e", " ", "|", " ", "A", "g", "e",
        " ", "|", "\n", "|", " ", "O", "n", "l", "y", "O", "n", "e",
        "C", "e", "l", "l", " ", "|", "\n", "|", " ", "A", "l", "i",
        "c", "e", " ", "|", " ", "3", "0", " ", "|">>,
      <<"H", "e", "r", "e", " ", "i", "s", " ", "t", "h", "e", " ",
        "r", "e", "p", "o", "r", "t", ":", "\n", "#", " ", "R", "e",
        "v", "e", "n", "u", "e", " ", "a", "n", "d", " ", "E", "x",
        "p", "e", "n", "s", "e", "s", "\n", "#", "#", " ", "S", "u",
        "m", "m", "a", "r", "y", "\n", "*", "*", "T", "o", "t", "a",
        "l", "*", "*", " ", "c", "o", "s", "t", " ", "o", "f", " ",
        Backtick, "x", Backtick, "\n", "-", " ", "i", "t", "e", "m",
        " ", "o", "n", "e">> }

\* Texts with markup or a preamble, and texts whose lines meet the
\* continuation tests of the list and paragraph collections: a list item, an
\* upper-case line and a numbered line that end with ":"; a numbered line of
\* two digits before and after a plain line; headings of the three levels;
\* opening phrases at the start and inside; a fenced code block; a list
\* of two items before a plain line.
MarkupDocuments ==
    { <<"-", " ", "n", "o", "t", "e", ":", "\n", "S", "U", "M", "M",
        "A", "R", "Y", ":", "\n", "1", ".", " ", "S", "c", "o", "p",
        "e", ":">>,
      <<"1", "2", ".", " ", "N", "e", "x", "t", " ", "S", "t", "e",
        "p", "s", "\n", "T", "o", "t", "a", "l", " ", "c", "o", "s",
        "t", " ", "r", "o", "s", "e", "\n", "1", "2", ".", " ", "N",
        "e", "x", "t", " ", "S", "t", "e", "p", "s">>,
      <<"#", "#", " ", "H", "e", "r", "e", " ", "i", "s", " ", "t",
        "h", "e", " ", "p", "l", "a", "n">>,
      <<"S", "u", "r", "e", ".", " ", "S", "u", "r", "e", ".", " ", "x">>,
      <<"R", "E", "V", "E", "N", "U", "E", " ", "A", "N", "D", " ",
        "E", "X", "P", "E", "N", "S", "E", "S", "\n", "S", "u", "r",
        "e", ",", " ", "h", "e", "r", "e", " ", "i", "t", " ", "i",
        "s", ".">>,
      <<"O", "k", "a", "y", "\n", "1", ".", " ", "S", "C", "O", "P", "E">>,
      <<Backtick, Backtick, Backtick, "\n", "x", " ", "=", " ", "1",
        "\n", Backtick, Backtick, Backtick>>,
      <<"#", " ", "R", "e", "s", "u", "l", "t", "s", ":", " ", "2",
        "0", "2", "4">>,
      <<"#", " ", "S", "u", "m", "m", "a", "r", "y">>,
      <<"#", "#", " ", "S", "U", "M", "M", "A", "R", "Y">>,
      <<"#", "#", "#", " ", "K", "e", "y", " ", "P", "o", "i", "n",
        "t", "s", ":">>,
      <<"#", " ", "R", "e", "v", "e", "n", "u", "e", " ", "a", "n",
        "d", " ", "E", "x", "p", "e", "n", "s", "e", "s">>,
      <<"#", "#", " ", "N", "e", "x", "t", " ", "S", "t", "e", "p", "s">>,
      <<"-", " ", "i", "t", "e", "m", " ", "o", "n", "e", "\n", "1",
        ".", " ", "F", "i", "r", "s", "t", " ", "F", "i", "n", "d",
        "i", "n", "g", "\n", "T", "o", "t", "a", "l", " ", "c", "o",
        "s", "t", " ", "r", "o", "s", "e">> }

\* The texts of n lines of LinePool.
RECURSIVE Texts(_)
Texts(n) ==
    IF n = 1 THEN LinePool
    ELSE {t \o <<"\n">> \o l : t \in Texts(n - 1), l \in LinePool}

Inputs == UNION {Texts(n) : n \in 1..MaxLines} \cup Documents \cup MarkupDocuments

\* The texts a provider returns: the lines, the documents and the texts
\* with markup.
Responses == LinePool \cup Documents \cup MarkupDocuments

\* The titles given to generate_pdf: the default and one to escape.
Titles ==
    { <<"G", "e", "n", "e", "r", "a", "t", "e", "d", " ", "D", "o",
        "c", "u", "m", "e", "n", "t">>,
      <<"Q", "&", "A", " ", "<", "D", "r", "a", "f", "t", ">">> }

\* The characters of the input texts.
Alphabet == UNION {{t[k] : k \in 1..Len(t)} : t \in Inputs}

\* ------------------------------------------------------------------------
\* The flowables of the story
\* ------------------------------------------------------------------------

\* Spacer(1, h * inch), h in hundredths.
Spacer(h) ==
    [kind |-> "Spacer", style |-> "", text |-> <<>>, rows |-> <<>>,
     num_cols |-> 0, height |-> h, src |-> <<>>]

\* Paragraph with the text not escaped.
Paragraph_Unescaped(t, style, src) ==
    [kind |-> "Paragraph", style |-> style, text |-> t,
     rows |-> <<>>, num_cols |-> 0, height |-> 0, src |-> src]

\* Paragraph(sanitize_text(text), style); src are the lines (0-based) the
\* text was taken from.
Paragraph(t, style, src) ==
    [kind |-> "Paragraph", style |-> style, text |-> sanitize_text(t),
     rows |-> <<>>, num_cols |-> 0, height |-> 0, src |-> src]

\* Table(wrapped_rows, colWidths=[col_width] * num_cols): each cell is a
\* Paragraph of the sanitized cell text; src[r] is the line of row r.
Table(table_rows, src) ==
    [kind |-> "Table", style |-> "",  text |-> <<>>,
     rows |-> [r \in 1..Len(table_rows) |->
                 [c \in 1..Len(table_rows[r]) |-> sanitize_text(table_rows[r][c])]],
     num_cols |-> Len(table_rows[1]), height |-> 0, src |-> src]

\* ------------------------------------------------------------------------
\* _format_content
\* ------------------------------------------------------------------------

\* re.match(r"^\|[\s\-|]+\|$", curr_line)
IsSeparatorRow(l) ==
    /\ Len(l) >= 3
    /\ l[1] = "|"
    /\ l[Len(l)] = "|"
    /\ \A k \in 2..(Len(l) - 1) : l[k] \in Whitespace \cup {"-", "|"}

\* cells = [cell.strip() for cell in curr_line.split("|")]
\* cells = [c for c in cells if c]
ParseCells(l) ==
    LET cells == [k \in 1..Len(split(l, "|")) |-> strip(split(l, "|")[k])]
    IN  SelectSeq(cells, LAMBDA c : c # <<>>)

\* RowAccepted with the column test left out: if cells
RowAccepted_AnyCell(cells) == cells # <<>>

\* if cells and len(cells) >= 2
RowAccepted(cells) == cells # <<>> /\ Len(cells) >= 2

\* if table_rows and len(table_rows) >= 2
TableAccepted(table_rows) == table_rows # <<>> /\ Len(table_rows) >= 2

\* The inner loop of table mode, from cursor j (0-based) with the rows
\* collected so far; src are the lines of the rows.  The result is the
\* cursor and the rows when the loop ends.
RECURSIVE CollectTable(_, _, _, _)
CollectTable(ls, j, table_rows, src) ==
    IF j >= Len(ls)
    THEN [i |-> j, table_rows |-> table_rows, src |-> src]
    ELSE LET curr_line == strip(ls[j + 1])
         IN  IF curr_line # <<>> /\ contains(curr_line, "|") /\ IsSeparatorRow(curr_line)
             THEN CollectTable(ls, j + 1, table_rows, src)
             ELSE IF curr_line # <<>> /\ contains(curr_line, "|") /\ count(curr_line, "|") >= 2
             THEN IF RowAccepted(ParseCells(curr_line))
                  THEN CollectTable(ls, j + 1, Append(table_rows, ParseCells(curr_line)),
                                    Append(src, j))
                  ELSE CollectTable(ls, j + 1, table_rows, src)
             ELSE IF curr_line = <<>>
             THEN [i |-> j + 1, table_rows |-> table_rows, src |-> src]
             ELSE [i |-> j, table_rows |-> table_rows, src |-> src]

\* if "|" in line and len(line) > 5
IsTableTrigger(l) == contains(l, "|") /\ Len(l) > 5

\* line.startswith(("- ", "U+2022 ", "* "))
StartsWithBullet(l) ==
    \/ startswith(l, <<"-", " ">>)
    \/ startswith(l, <<Bullet, " ">>)
    \/ startswith(l, <<"*", " ">>)

is_major_heading(l) ==
    /\ isupper(l)
    /\ Len(l) < 80
    /\ Len(l) > 5
    /\ ~endswith(l, ".")
    /\ ~endswith(l, ":")
    /\ ~(\/ StartsWithBullet(l)
         \/ startswith(l, <<"1", ".">>)
         \/ startswith(l, <<"2", ".">>)
         \/ startswith(l, <<"3", ".">>))
    /\ count(l, " ") >= 1

\* is_section_heading with the upper-case test left out.
is_section_heading_AnyCase(l) ==
    /\ endswith(l, ":")
    /\ Len(l) < 100
    /\ ~StartsWithBullet(l)
    /\ Len(l) > 3

is_section_heading(l) ==
    /\ endswith(l, ":")
    /\ Len(l) < 100
    /\ ~StartsWithBullet(l)
    /\ ~isupper(l)
    /\ Len(l) > 3

\* is_subsection with the test of the trailing period left out.
is_subsection_AnyEnding(l) ==
    \E d \in 1..Len(l) :
        /\ \A k \in 1..d : l[k] \in DigitChars
        /\ Len(l) > d /\ l[d + 1] = "."
        /\ \E w \in 1..Len(l) :
              /\ \A k \in (d + 2)..(d + 1 + w) : k <= Len(l) /\ l[k] \in Whitespace
              /\ Len(l) >= d + 2 + w
              /\ l[d + 2 + w] \in WordChars

\* re.match(r"^\d+\.\s+\w", line) and not line.endswith(".")
is_subsection(l) ==
    /\ \E d \in 1..Len(l) :
          /\ \A k \in 1..d : l[k] \in DigitChars
          /\ Len(l) > d /\ l[d + 1] = "."
          /\ \E w \in 1..Len(l) :
                /\ \A k \in (d + 2)..(d + 1 + w) : k <= Len(l) /\ l[k] \in Whitespace
                /\ Len(l) >= d + 2 + w
                /\ l[d + 2 + w] \in WordChars
    /\ ~endswith(l, ".")

\* The list test with the numbered prefix left out.
IsListItem_BulletOnly(l) == StartsWithBullet(l)

\* The list test of lines 369 and 375-377.
IsListItem(l) ==
    \/ StartsWithBullet(l)
    \/ (Len(l) > 2 /\ l[1] \in DigitChars /\ l[2] \in {".", ")"} /\ l[3] = " ")

\* Branch with the list test moved before the subsection test.
Branch_ListFirst(l) ==
    IF l = <<>> THEN "blank"
    ELSE IF IsTableTrigger(l) THEN "table"
    ELSE IF is_major_heading(l) THEN "major"
    ELSE IF is_section_heading(l) THEN "section"
    ELSE IF IsListItem(l) THEN "list"
    ELSE IF is_subsection(l) THEN "subsection"
    ELSE "paragraph"

\* The branch one iteration of the outer loop takes at the stripped line l:
\* the if chain of lines 214, 219, 350, 356, 362, 369 and the fall-through
\* to 398.
Branch(l) ==
    IF l = <<>> THEN "blank"
    ELSE IF IsTableTrigger(l) THEN "table"
    ELSE IF is_major_heading(l) THEN "major"
    ELSE IF is_section_heading(l) THEN "section"
    ELSE IF is_subsection(l) THEN "subsection"
    ELSE IF IsListItem(l) THEN "list"
    ELSE "paragraph"

\* The inner loop of list mode: the cursor and the items when it ends.
RECURSIVE CollectList(_, _, _, _)
CollectList(ls, j, list_items, src) ==
    IF j >= Len(ls)
    THEN [i |-> j, list_items |-> list_items, src |-> src]
    ELSE LET curr_line == strip(ls[j + 1])
         IN  IF curr_line # <<>> /\ IsListItem(curr_line)
             THEN CollectList(ls, j + 1, Append(list_items, curr_line), Append(src, j))
             ELSE IF curr_line = <<>>
             THEN [i |-> j + 1, list_items |-> list_items, src |-> src]
             ELSE [i |-> j, list_items |-> list_items, src |-> src]

\* The test of lines 403-408: next_line goes into the paragraph.
ParagraphContinues(next_line) ==
    /\ next_line # <<>>
    /\ ~endswith(next_line, ":")
    /\ ~StartsWithBullet(next_line)
    /\ ~contains(next_line, "|")
    /\ ~(Len(next_line) > 2 /\ next_line[1] \in DigitChars /\ next_line[2] \in {".", ")"})
    /\ ~(isupper(next_line) /\ Len(next_line) > 5 /\ count(next_line, " ") >= 1)

\* The inner loop of paragraph mode: the cursor and the lines when it ends.
RECURSIVE CollectParagraph(_, _, _, _)
CollectParagraph(ls, j, para_lines, src) ==
    IF j >= Len(ls)
    THEN [i |-> j, para_lines |-> para_lines, src |-> src]
    ELSE LET next_line == strip(ls[j + 1])
         IN  IF ParagraphContinues(next_line)
             THEN CollectParagraph(ls, j + 1, Append(para_lines, next_line), Append(src, j))
             ELSE [i |-> j, para_lines |-> para_lines, src |-> src]

\* lines[i].strip()
line == strip(lines[i + 1])

\* The service holds nothing and runs nothing: the registries as the module
\* document.py creates them (lines 25-27), no task, no request, no call of
\* generate_long_content.
ServiceIdle ==
    /\ UPLOADS = <<>>
    /\ JOBS = <<>>
    /\ GENERATED_PDFS = <<>>
    /\ tasks = <<>>
    /\ served = {}
    /\ requests = <<>>
    /\ long = [pc |-> "idle"]

\* generate_pdf up to its call of _format_content: the story holds the
\* title and a spacer.
Init ==
    /\ ServiceIdle
    /\ pc = "start"
    /\ content \in Inputs
    /\ response = content
    /\ title \in Titles
    /\ document = <<Paragraph(title, "TITLE_STYLE", <<>>), Spacer(40)>>
    /\ text = content
    /\ sub = 0
    /\ lines = <<>>
    /\ i = 0
    /\ story = <<>>
    /\ iter_start = 0
    /\ iter_rule = "none"

\* text = re.sub(...): the next substitution of clean_ai_output
Substitute ==
    /\ pc \in {"client", "start"}
    /\ sub < NumSubs
    /\ text' = ApplySub(sub + 1, text)
    /\ sub' = sub + 1
    /\ UNCHANGED <<pc, response, title, document, content, lines, i, story, iter_start, iter_rule>>
    /\ UNCHANGED serviceVars

\* return text.strip(); lines = content.split("\n"); i = 0
Clean ==
    /\ pc = "start"
    /\ sub = NumSubs
    /\ text' = strip(text)
    /\ lines' = split(text', "\n")
    /\ pc' = "scan"
    /\ UNCHANGED <<response, title, document, content, sub, i, story, iter_start, iter_rule>>
    /\ UNCHANGED serviceVars

\* if not line: i += 1; continue
SkipBlank ==
    /\ pc = "scan"
    /\ i < Len(lines)
    /\ Branch(line) = "blank"
    /\ i' = i + 1
    /\ iter_start' = i
    /\ iter_rule' = "blank"
    /\ UNCHANGED <<pc, response, title, document, content, text, sub, lines, story>>
    /\ UNCHANGED serviceVars

\* Table mode, lines 219-327: collect the rows, append the table when there
\* are at least two, continue.
TableMode ==
    /\ pc = "scan"
    /\ i < Len(lines)
    /\ Branch(line) = "table"
    /\ LET got == CollectTable(lines, i, <<>>, <<>>)
       IN  /\ i' = got.i
           /\ story' = IF TableAccepted(got.table_rows)
                       THEN story \o <<Spacer(15), Table(got.table_rows, got.src), Spacer(15)>>
                       ELSE story
    /\ iter_start' = i
    /\ iter_rule' = "table"
    /\ UNCHANGED <<pc, response, title, document, content, text, sub, lines>>
    /\ UNCHANGED serviceVars

\* Lines 350-355.
MajorHeading ==
    /\ pc = "scan"
    /\ i < Len(lines)
    /\ Branch(line) = "major"
    /\ story' = story \o <<Spacer(20), Paragraph(line, "HEADING_STYLE", <<i>>), Spacer(5)>>
    /\ i' = i + 1
    /\ iter_start' = i
    /\ iter_rule' = "major"
    /\ UNCHANGED <<pc, response, title, document, content, text, sub, lines>>
    /\ UNCHANGED serviceVars

\* Lines 356-361.
SectionHeading ==
    /\ pc = "scan"
    /\ i < Len(lines)
    /\ Branch(line) = "section"
    /\ story' = story \o <<Spacer(15), Paragraph(line, "SUBHEADING_STYLE", <<i>>), Spacer(5)>>
    /\ i' = i + 1
    /\ iter_start' = i
    /\ iter_rule' = "section"
    /\ UNCHANGED <<pc, response, title, document, content, text, sub, lines>>
    /\ UNCHANGED serviceVars

\* Lines 362-366.
Subsection ==
    /\ pc = "scan"
    /\ i < Len(lines)
    /\ Branch(line) = "subsection"
    /\ story' = story \o <<Spacer(10), Paragraph(line, "SUBHEADING2_STYLE", <<i>>)>>
    /\ i' = i + 1
    /\ iter_start' = i
    /\ iter_rule' = "subsection"
    /\ UNCHANGED <<pc, response, title, document, content, text, sub, lines>>
    /\ UNCHANGED serviceVars

\* List mode, lines 369-395: one Paragraph for each item collected.
ListMode ==
    /\ pc = "scan"
    /\ i < Len(lines)
    /\ Branch(line) = "list"
    /\ LET got == CollectList(lines, i, <<>>, <<>>)
       IN  /\ i' = got.i
           /\ story' = story \o
                  [k \in 1..Len(got.list_items) |->
                      Paragraph(got.list_items[k], "ListItem", <<got.src[k]>>)]
    /\ iter_start' = i
    /\ iter_rule' = "list"
    /\ UNCHANGED <<pc, response, title, document, content, text, sub, lines>>
    /\ UNCHANGED serviceVars

\* Paragraph mode, lines 398-416.
ParagraphMode ==
    /\ pc = "scan"
    /\ i < Len(lines)
    /\ Branch(line) = "paragraph"
    /\ LET got == CollectParagraph(lines, i + 1, <<line>>, <<i>>)
           para_text == join(got.para_lines, " ")
       IN  /\ i' = got.i
           /\ story' = IF strip(para_text) # <<>>
                       THEN Append(story, Paragraph(para_text, "BODY_STYLE", got.src))
                       ELSE story
    /\ iter_start' = i
    /\ iter_rule' = "paragraph"
    /\ UNCHANGED <<pc, response, title, document, content, text, sub, lines>>
    /\ UNCHANGED serviceVars

\* A slip: the blocks of the content are put before the title and the gap.
Finish_StoryFirst ==
    /\ pc = "scan"
    /\ i >= Len(lines)
    /\ pc' = "done"
    /\ document' = story \o document
    /\ UNCHANGED <<response, title, content, text, sub, lines, i, story, iter_start, iter_rule>>
    /\ UNCHANGED serviceVars

\* while i < len(lines) is false: return story; generate_pdf extends its
\* story with it.
Finish ==
    /\ pc = "scan"
    /\ i >= Len(lines)
    /\ pc' = "done"
    /\ document' = document \o story
    /\ UNCHANGED <<response, title, content, text, sub, lines, i, story, iter_start, iter_rule>>
    /\ UNCHANGED serviceVars

Next ==
    \/ Substitute
    \/ Clean
    \/ SkipBlank
    \/ TableMode
    \/ MajorHeading
    \/ SectionHeading
    \/ Subsection
    \/ ListMode
    \/ ParagraphMode
    \/ Finish

Spec == Init /\ [][Next]_vars

\* The provider client has the response and calls clean_ai_output on it.
ClientInit ==
    /\ ServiceIdle
    /\ pc = "client"
    /\ response \in Responses
    /\ content = response
    /\ title \in Titles
    /\ document = <<>>
    /\ text = response
    /\ sub = 0
    /\ lines = <<>>
    /\ i = 0
    /\ story = <<>>
    /\ iter_start = 0
    /\ iter_rule = "none"

\* The call of the client returns text.strip(); generate_pdf is called with
\* the result, and calls _format_content with it.
ClientReturned ==
    /\ pc = "client"
    /\ sub = NumSubs
    /\ content' = strip(text)
    /\ text' = content'
    /\ sub' = 0
    /\ document' = <<Paragraph(title, "TITLE_STYLE", <<>>), Spacer(40)>>
    /\ pc' = "start"
    /\ UNCHANGED <<response, title, lines, i, story, iter_start, iter_rule>>

\* The same, with the service left as it is.
ClientReturn ==
    /\ ClientReturned
    /\ UNCHANGED serviceVars

ClientNext == ClientReturn \/ Next

\* The text comes from a provider: cleaned by the client, then given to
\* generate_pdf.
ClientSpec == ClientInit /\ [][ClientNext]_vars

\* ------------------------------------------------------------------------
\* Properties
\* ------------------------------------------------------------------------

\* The stripped line k (0-based), as the scan reads it.
LineAt(k) == strip(lines[k + 1])

\* The places in the story of the flowables made from line k.
BlocksOf(k) ==
    {n \in 1..Len(story) : \E m \in 1..Len(story[n].src) : story[n].src[m] = k}

\* The places in the story of the tables.
Tables == {n \in 1..Len(story) : story[n].kind = "Table"}

\* The rule a flowable was made by.
BlockRule(b) ==
    CASE b.kind = "Table" -> "table"
      [] b.kind = "Paragraph" /\ b.style = "HEADING_STYLE" -> "major"
      [] b.kind = "Paragraph" /\ b.style = "SUBHEADING_STYLE" -> "section"
      [] b.kind = "Paragraph" /\ b.style = "SUBHEADING2_STYLE" -> "subsection"
      [] b.kind = "Paragraph" /\ b.style = "ListItem" -> "list"
      [] b.kind = "Paragraph" /\ b.style = "BODY_STYLE" -> "paragraph"
      [] OTHER -> "spacer"

\* The rules in their order of priority, and the lines that satisfy each.
Priority == <<"table", "major", "section", "subsection", "list", "paragraph">>

Satisfies(l, rule) ==
    CASE rule = "table" -> IsTableTrigger(l)
      [] rule = "major" -> is_major_heading(l)
      [] rule = "section" -> is_section_heading(l)
      [] rule = "subsection" -> is_subsection(l)
      [] rule = "list" -> IsListItem(l)
      [] OTHER -> TRUE

\* The highest-priority rule the line l satisfies by itself.
HighestRule(l) ==
    Priority[MinOf({n \in 1..Len(Priority) : Satisfies(l, Priority[n])})]

\* An iteration of the outer loop has run, and it started at a non-blank line.
IterationRan == iter_rule \notin {"none", "blank"}

\* C1: when the scan has ended, every line that is neither blank nor a table
\* separator row is in exactly one flowable of the story, and no line is in
\* two.
C1_EveryLineInOneBlock ==
    pc = "done" =>
        \A k \in 0..(Len(lines) - 1) :
            /\ Cardinality(BlocksOf(k)) <= 1
            /\ (LineAt(k) # <<>> /\ ~IsSeparatorRow(LineAt(k)))
                  => Cardinality(BlocksOf(k)) = 1

\* C2: every iteration of the outer loop moves the cursor i forward.
C2_CursorAdvances == [][(pc = "scan" /\ pc' = "scan") => i' > i]_vars

\* The last iteration was table mode and appended no table.
TableModeFailed ==
    /\ iter_rule = "table"
    /\ \A n \in Tables : story[n].src[1] < iter_start

\* C3: after a table mode that collected fewer than 2 rows, every line it
\* consumed (blank lines and separator rows aside) is in a body paragraph.
C3_FailedTableReclassified ==
    TableModeFailed =>
        \A k \in iter_start..(i - 1) :
            (LineAt(k) # <<>> /\ ~IsSeparatorRow(LineAt(k)))
               => \E n \in BlocksOf(k) : BlockRule(story[n]) = "paragraph"

\* A pipe-delimited line with fewer than 2 non-empty cells after trimming.
IsMalformedRow(l) ==
    contains(l, "|") /\ ~IsSeparatorRow(l) /\ Len(ParseCells(l)) < 2

\* C4: a consumed pipe-delimited line with fewer than 2 non-empty cells is in
\* no table and is in a body paragraph.
C4_MalformedRowToParagraph ==
    \A k \in 0..(i - 1) :
        IsMalformedRow(LineAt(k)) =>
            /\ \A n \in BlocksOf(k) : BlockRule(story[n]) # "table"
            /\ \E n \in BlocksOf(k) : BlockRule(story[n]) = "paragraph"

\* C5: every row of a table has as many cells as its first row, the row
\* that fixes num_cols.
C5_UniformColumns ==
    \A n \in Tables :
        \A r \in 1..Len(story[n].rows) :
            Len(story[n].rows[r]) = story[n].num_cols

\* C6: every table of the story has at least 2 rows, and every row of it
\* at least 2 cells.
C6_TableShape ==
    \A n \in Tables :
        /\ Len(story[n].rows) >= 2
        /\ \A r \in 1..Len(story[n].rows) : Len(story[n].rows[r]) >= 2

\* A table has been appended from an input one of whose pipe-delimited lines
\* has fewer than 2 cells.
C6_Witness ==
    /\ Tables # {}
    /\ \E k \in 0..(i - 1) : IsMalformedRow(LineAt(k))

\* The cells of a row with only the empty cells at its two edges dropped.
RECURSIVE DropEmptyHead(_)
DropEmptyHead(cells) ==
    IF cells # <<>> /\ cells[1] = <<>> THEN DropEmptyHead(Tail(cells)) ELSE cells

RECURSIVE DropEmptyLast(_)
DropEmptyLast(cells) ==
    IF cells # <<>> /\ cells[Len(cells)] = <<>>
    THEN DropEmptyLast(SubSeq(cells, 1, Len(cells) - 1))
    ELSE cells

EdgeTrimmedCells(l) ==
    DropEmptyLast(DropEmptyHead(
        [k \in 1..Len(split(l, "|")) |-> strip(split(l, "|")[k])]))

\* C7: every row of a table holds the cells of its line split on "|" and
\* trimmed, less the empty cells at the two edges only.
C7_InteriorEmptyCellKept ==
    \A n \in Tables :
        \A r \in 1..Len(story[n].rows) :
            story[n].rows[r] =
                [c \in 1..Len(EdgeTrimmedCells(LineAt(story[n].src[r]))) |->
                    sanitize_text(EdgeTrimmedCells(LineAt(story[n].src[r]))[c])]

\* C8: no row of a table is a separator row, the rows are in input order,
\* and table collection ends at the end of the input, after a blank line or
\* before a line without "|".
C8_SeparatorSkippedStopAtNonPipe ==
    /\ \A n \in Tables :
          \A r \in 1..Len(story[n].rows) :
              /\ ~IsSeparatorRow(LineAt(story[n].src[r]))
              /\ r > 1 => story[n].src[r - 1] < story[n].src[r]
    /\ iter_rule = "table" =>
          \/ i >= Len(lines)
          \/ (i > iter_start /\ LineAt(i - 1) = <<>>)
          \/ ~contains(LineAt(i), "|")

\* C9 as stated: every line of every flowable is of the rule that the line
\* satisfies by itself.
C9_KindByLineAlone ==
    \A n \in 1..Len(story) :
        \A m \in 1..Len(story[n].src) :
            BlockRule(story[n]) = HighestRule(LineAt(story[n].src[m]))

\* C9 as amended: the rule an iteration of the outer loop applies is the
\* highest-priority rule that the line it starts at satisfies.
C9_HeadLineRule ==
    IterationRan => iter_rule = HighestRule(LineAt(iter_start))

\* An iteration started at a line that satisfies the subsection rule and the
\* list rule, or the table rule and the major-heading rule.
C9_Witness ==
    /\ IterationRan
    /\ \/ is_subsection(LineAt(iter_start)) /\ IsListItem(LineAt(iter_start))
       \/ IsTableTrigger(LineAt(iter_start)) /\ isupper(LineAt(iter_start))

\* The major-heading rule as the claim states it: any digit followed by "."
\* is a numbered-item prefix.
ClaimedMajorHeading(l) ==
    /\ isupper(l)
    /\ Len(l) > 5 /\ Len(l) < 80
    /\ ~endswith(l, ".") /\ ~endswith(l, ":")
    /\ ~StartsWithBullet(l)
    /\ ~(Len(l) >= 2 /\ l[1] \in DigitChars /\ l[2] = ".")
    /\ count(l, " ") >= 1

\* C10: a line that does not trigger table mode is a major heading exactly
\* when it satisfies the rule as the claim states it.
C10_MajorHeadingIff ==
    (IterationRan /\ iter_rule # "table") =>
        (iter_rule = "major" <=> ClaimedMajorHeading(LineAt(iter_start)))

\* The section-heading rule as the claim states it; the list-item prefixes
\* are "- ", "U+2022 " and "* ".
ClaimedSectionHeading(l) ==
    /\ l # <<>> /\ l[Len(l)] = ":"
    /\ Len(l) > 3 /\ Len(l) < 100
    /\ \E k \in 1..Len(l) : l[k] \in LowerChars \/ \A j \in 1..Len(l) : l[j] \notin UpperChars
    /\ ~StartsWithBullet(l)

QuarterlyReview ==
    <<"Q", "u", "a", "r", "t", "e", "r", "l", "y", " ", "R", "e", "v", "i", "e", "w", ":">>

IsNumberedForm(l) ==
    \E d \in 1..Len(l) :
        \E w \in (d + 2)..Len(l) :
            /\ \A k \in 1..d : l[k] \in DigitChars
            /\ l[d + 1] = "."
            /\ w > d + 2
            /\ \A k \in (d + 2)..(w - 1) : l[k] \in Whitespace
            /\ l[w] \in WordChars

\* No rule above the subsection rule takes the line.
NoHigherThanSubsection(l) ==
    ~IsTableTrigger(l) /\ ~is_major_heading(l) /\ ~is_section_heading(l)

IsBodyParagraph(n) == BlockRule(story[n]) = "paragraph"

\* C13: every body paragraph is made of consecutive lines joined in order
\* with one space, and every line after its first is one that no rule above
\* the paragraph rule takes: no line that alone is a table trigger, a
\* heading or a list item is merged into a paragraph.
C13_NoHigherRuleLineMerged ==
    \A n \in 1..Len(story) :
        IsBodyParagraph(n) =>
            /\ \A m \in 2..Len(story[n].src) :
                   /\ story[n].src[m] = story[n].src[m - 1] + 1
                   /\ HighestRule(LineAt(story[n].src[m])) = "paragraph"
            /\ story[n].text =
                   sanitize_text(join([m \in 1..Len(story[n].src) |->
                                          LineAt(story[n].src[m])], " "))

\* A list-item line as the claim states it: the prefix "- ", "U+2022 " or
\* "* ", or one digit followed by "." or ")" and a space.
ClaimedListItem(l) ==
    \/ Len(l) >= 2 /\ l[1] \in {"-", Bullet, "*"} /\ l[2] = " "
    \/ Len(l) >= 3 /\ l[1] \in DigitChars /\ l[2] \in {".", ")"} /\ l[3] = " "

\* The list-item lines a list iteration has consumed.
ListRun == {k \in iter_start..(i - 1) : LineAt(k) # <<>>}

Fragment(b) == join([m \in 1..Len(b.src) |-> LineAt(b.src[m])], " ")

\* No character that html.escape replaces is left in t, but for the "&" of
\* an entity.
NoRawMarkup(t) == \A k \in 1..Len(t) : t[k] \notin {"<", ">", "\"", "'"}

\* C15: the title paragraph holds the title escaped once, every paragraph
\* of the story its fragment escaped once and every table cell its cell
\* text escaped once; no text of the document holds a raw "<", ">" or
\* quote; and the document returned is the title, a spacer and the story.
C15_EscapedExactlyOnce ==
    /\ document # <<>> =>
           /\ document[1].text = sanitize_text(title)
           /\ NoRawMarkup(document[1].text)
    /\ \A n \in 1..Len(story) :
           /\ story[n].kind = "Paragraph" =>
                  /\ story[n].text = sanitize_text(Fragment(story[n]))
                  /\ NoRawMarkup(story[n].text)
           /\ story[n].kind = "Table" =>
                  \A r \in 1..Len(story[n].rows) :
                      \A c \in 1..Len(story[n].rows[r]) :
                          /\ story[n].rows[r][c] =
                                 sanitize_text(ParseCells(LineAt(story[n].src[r]))[c])
                          /\ NoRawMarkup(story[n].rows[r][c])
    /\ pc = "done" =>
           document = <<Paragraph(title, "TITLE_STYLE", <<>>), Spacer(40)>> \o story

\* The document is complete; its title holds "&" and "<", and a paragraph
\* of it was made from a line that holds "<script>".
C15_Witness ==
    /\ pc = "done"
    /\ contains(title, "&") /\ contains(title, "<")
    /\ \E n \in 3..Len(document) :
          /\ document[n].kind = "Paragraph"
          /\ \E k \in 1..(Len(Fragment(document[n])) - 7) :
                SubSeq(Fragment(document[n]), k, k + 7) =
                    <<"<", "s", "c", "r", "i", "p", "t", ">">>
          /\ \E k \in 1..(Len(document[n].text) - 13) :
                SubSeq(document[n].text, k, k + 13) =
                    <<"&", "l", "t", ";", "s", "c", "r", "i", "p", "t", "&", "g", "t", ";">>

\* C16: when the client has cleaned the response and _format_content has
\* cleaned the result again, the second call has changed nothing:
\* clean_ai_output(clean_ai_output(response)) = clean_ai_output(response).
C16_CleanIdempotent ==
    pc \in {"scan", "done"} => text = content

\* The place of the first line break of t, or Len(t) + 1.
FirstLineEnd(t) == RunEndNot(t, 1, {"\n"})

\* C17: when the three preamble substitutions have run, the text is the
\* given text less a part at its start, and that part holds nothing beyond
\* the first line but whitespace: nothing inside the document is removed.
C17_PreambleOnlyAtStart ==
    (pc = "start" /\ sub = 3) =>
        \E n \in 0..Len(content) :
            /\ text = SubSeq(content, n + 1, Len(content))
            /\ \A k \in (FirstLineEnd(content) + 1)..n : content[k] \in Whitespace

\* The places in t of three backquotes in a row.
Fences(t) == {p \in 1..Len(t) : PrefixAt(t, p, <<Backtick, Backtick, Backtick>>)}

\* t holds a fenced code block: a fence, and a fence after it.
HasFencedBlock(t) == \E p, q \in Fences(t) : q >= p + 3

\* The lines between the first fence of t and the next one.
FencedLines(t) ==
    LET p == MinOf(Fences(t))
        q == MinOf({f \in Fences(t) : f >= p + 3})
    IN  split(SubSeq(t, p + 3, q - 1), "\n")

\* C18: when the given text holds a fenced code block, the lines the
\* classifier scans hold no backquote and none of the lines of the block.
C18_FencedBlockRemoved ==
    (pc = "scan" /\ HasFencedBlock(content)) =>
        /\ ~contains(text, Backtick)
        /\ \A m \in 1..Len(FencedLines(content)) :
               strip(FencedLines(content)[m]) # <<>> =>
                   \A k \in 0..(Len(lines) - 1) :
                       LineAt(k) # strip(FencedLines(content)[m])

\* The first line of t.
FirstLine(t) == SubSeq(t, 1, FirstLineEnd(t) - 1)

\* l is a heading line of the level n: n "#", a space, a text.
IsHeadingOfLevel(l, n) ==
    /\ Len(l) >= n + 2
    /\ \A k \in 1..n : l[k] = "#"
    /\ l[n + 1] = " "
    /\ l[n + 2] \notin Whitespace \cup {"#"}

\* The text of a heading line of the level n.
HeadingText(l, n) == strip(SubSeq(l, n + 2, Len(l)))

\* C19: when the first line of the given text is a level-1 heading, the
\* first line the classifier scans holds no "#", no ":" and no lower-case
\* letter, and is the heading text in upper case when that text holds no
\* colon.
C19_Level1UpperNoColon ==
    (pc = "scan" /\ IsHeadingOfLevel(FirstLine(content), 1)) =>
        /\ lines # <<>>
        /\ \A k \in 1..Len(LineAt(0)) :
               LineAt(0)[k] \notin LowerChars \cup {"#", ":"}
        /\ ~contains(HeadingText(FirstLine(content), 1), ":") =>
               LineAt(0) = [k \in 1..Len(HeadingText(FirstLine(content), 1)) |->
                               upper(HeadingText(FirstLine(content), 1)[k])]

\* The rule the heading conventions promise for a first line that is a
\* markdown heading: major for the level 1, section for the level 2 and for
\* the level 3 ending in a colon; "none" for any other first line.
PromisedRule(l) ==
    IF IsHeadingOfLevel(l, 1) THEN "major"
    ELSE IF IsHeadingOfLevel(l, 2) THEN "section"
    ELSE IF IsHeadingOfLevel(l, 3) /\ endswith(l, ":") THEN "section"
    ELSE "none"

\* C20: when the first line of the given text is a level-1 heading the
\* iteration that starts at the first scanned line takes the major-heading
\* rule, and when it is a level-2 heading, or a level-3 heading ending in a
\* colon, it takes the section-heading rule.
C20_HeadingConventionsAgree ==
    (IterationRan /\ iter_start = 0 /\ PromisedRule(FirstLine(content)) # "none") =>
        iter_rule = PromisedRule(FirstLine(content))

\* t is empty or holds blank lines only.
IsBlankText(t) == \A k \in 1..Len(t) : t[k] \in Whitespace

\* The title paragraph and the fixed gap generate_pdf starts its story with.
TitleAndGap == <<Paragraph(title, "TITLE_STYLE", <<>>), Spacer(40)>>

\* C21: a content that is empty or holds blank lines only gives no block,
\* and the document built is the title paragraph and the gap and nothing
\* else; for every content the title paragraph and the gap are the first
\* two elements of the document, before any block of the content.
C21_TitleOnlyDocument ==
    /\ pc \in {"start", "scan", "done"} =>
           /\ Len(document) >= 2
           /\ SubSeq(document, 1, 2) = TitleAndGap
    /\ pc = "done" => document = TitleAndGap \o story
    /\ (pc \in {"scan", "done"} /\ IsBlankText(content)) => story = <<>>
    /\ (pc = "done" /\ IsBlankText(content)) => document = TitleAndGap

\* A content of two blank lines has been built into a document.
C21_Witness ==
    /\ pc = "done"
    /\ content = <<"\n">>
    /\ document = TitleAndGap

\* ------------------------------------------------------------------------
\* The job service: routers/document.py
\* ------------------------------------------------------------------------

\* Python's None. A text of the service (an upload id, an error message) is
\* a sequence, here of one word, so that None differs from every text but
\* the empty one, which the code treats like None (lines 214, 221, 267).
None == <<>>

\* The largest number of jobs created.
MaxJobs == 2

\* GenerateRequest.length is validated into 1..5.
MaxLength == 5

Lengths == 1..MaxLength

\* An upload_files request has stored one upload of one text file.
StoredUploads ==
    [u \in {<<"u1">>} |->
        [files |-> <<[filename |-> "a.txt", extracted_text |-> <<"h", "i">>,
                      char_count |-> 2]>>,
         combined_text |-> <<"h", "i">>,
         total_chars |-> 2]]

\* The result a provider client returns: text and token counts.
ProviderResults ==
    { [text |-> "REPORT", tokens_input |-> 10, tokens_output |-> 20] }

\* The service has one upload and no job.
ServerInit ==
    /\ pc = "idle"
    /\ response = <<>>
    /\ title = <<>>
    /\ document = <<>>
    /\ content = <<>>
    /\ text = <<>>
    /\ sub = 0
    /\ lines = <<>>
    /\ i = 0
    /\ story = <<>>
    /\ iter_start = 0
    /\ iter_rule = "none"
    /\ UPLOADS = StoredUploads
    /\ JOBS = <<>>
    /\ GENERATED_PDFS = <<>>
    /\ tasks = <<>>
    /\ served = {}
    /\ requests = <<>>
    /\ long = [pc |-> "idle"]

\* JOBS[job_id][key] = value, or JOBS[job_id].update({...})
JobUpdate(job_id, fields) ==
    [JOBS EXCEPT ![job_id] =
        [k \in DOMAIN @ |-> IF k \in DOMAIN fields THEN fields[k] ELSE @[k]]]

\* The task of job_id moves to the position p with the locals in fields.
TaskMove(job_id, p, fields) ==
    [tasks EXCEPT ![job_id] =
        [k \in DOMAIN @ |->
            IF k = "pc" THEN p
            ELSE IF k \in DOMAIN fields THEN fields[k] ELSE @[k]]]

\* generate_document, lines 213-248: the job is created and its task is
\* scheduled. A request that names an unknown upload is answered 404 and
\* changes nothing.
GenerateDocument ==
    /\ Len(JOBS) < MaxJobs
    /\ \E upload_id \in {None} \cup DOMAIN UPLOADS :
          /\ JOBS' = Append(JOBS, [upload_id |-> upload_id,
                                   status |-> "processing",
                                   progress |-> 0,
                                   error |-> None,
                                   result |-> None])
          /\ tasks' = Append(tasks, [pc |-> "scheduled",
                                     upload_id |-> upload_id,
                                     extracted_text |-> None,
                                     result |-> None,
                                     error |-> None])
    /\ UNCHANGED <<UPLOADS, GENERATED_PDFS, served, requests, long>>
    /\ UNCHANGED docVars

\* Line 264.
TaskStart(job_id) ==
    /\ tasks[job_id].pc = "scheduled"
    /\ JOBS' = JobUpdate(job_id, [progress |-> 10])
    /\ tasks' = TaskMove(job_id, "p10", <<>>)
    /\ UNCHANGED <<UPLOADS, GENERATED_PDFS, served, requests, long>>
    /\ UNCHANGED docVars

\* Lines 267-276.
TaskReadUpload(job_id) ==
    /\ tasks[job_id].pc = "p10"
    /\ LET upload_id == tasks[job_id].upload_id
           extracted_text ==
               IF upload_id # None /\ upload_id \in DOMAIN UPLOADS
               THEN UPLOADS[upload_id].combined_text
               ELSE <<>>
       IN  tasks' = TaskMove(job_id, "p20", [extracted_text |-> extracted_text])
    /\ JOBS' = JobUpdate(job_id, [progress |-> 20])
    /\ UNCHANGED <<UPLOADS, GENERATED_PDFS, served, requests, long>>
    /\ UNCHANGED docVars

\* A slip: sixty points are shared among the chunks.
progress_per_chunk_Sixty(length) == 60 \div length

\* progress_per_chunk = 50 // length
progress_per_chunk(length) == 50 \div length

\* Lines 279-311: the client is chosen and called. The task's parameter
\* length and the provider's configuration are read in this step only, and
\* are drawn here. The provider is not configured or the call raises: the
\* exception handler is next. The call returns: the result is kept, and for
\* length > 1 the progress is set from the number of chunks.
TaskCallProvider(job_id) ==
    /\ tasks[job_id].pc = "p20"
    /\ \/ /\ \E error_msg \in {<<"API key not configured">>, <<"API error">>} :
                tasks' = TaskMove(job_id, "except", [error |-> error_msg])
          /\ UNCHANGED JOBS
       \/ \E length \in Lengths, result \in ProviderResults :
             \E chunks_generated \in 1..length :
                /\ tasks' = TaskMove(job_id, "called", [result |-> result])
                /\ JOBS' = IF length > 1
                           THEN JobUpdate(job_id,
                                    [progress |-> 20 + progress_per_chunk(length) * chunks_generated])
                           ELSE JOBS
    /\ UNCHANGED <<UPLOADS, GENERATED_PDFS, served, requests, long>>
    /\ UNCHANGED docVars

\* Line 313.
TaskProgress70(job_id) ==
    /\ tasks[job_id].pc = "called"
    /\ JOBS' = JobUpdate(job_id, [progress |-> 70])
    /\ tasks' = TaskMove(job_id, "p70", <<>>)
    /\ UNCHANGED <<UPLOADS, GENERATED_PDFS, served, requests, long>>
    /\ UNCHANGED docVars

\* Lines 316-318.
TaskProgress75(job_id) ==
    /\ tasks[job_id].pc = "p70"
    /\ JOBS' = JobUpdate(job_id, [progress |-> 75])
    /\ tasks' = TaskMove(job_id, "p75", <<>>)
    /\ UNCHANGED <<UPLOADS, GENERATED_PDFS, served, requests, long>>
    /\ UNCHANGED docVars

\* Lines 321-340: generate_pdf returns the document and the progress is set,
\* or it raises. (A call that does not return leaves the task here.)
TaskGeneratePdf(job_id) ==
    /\ pc = "idle"
    /\ tasks[job_id].pc = "p75"
    /\ \/ /\ JOBS' = JobUpdate(job_id, [progress |-> 90])
          /\ tasks' = TaskMove(job_id, "p90", <<>>)
       \/ /\ tasks' = TaskMove(job_id, "except", [error |-> <<"PDF error">>])
          /\ UNCHANGED JOBS
    /\ UNCHANGED <<UPLOADS, GENERATED_PDFS, served, requests, long>>
    /\ UNCHANGED docVars

\* Lines 343-360: the document is saved and the job is updated, or
\* save_pdf raises.
TaskComplete(job_id) ==
    /\ tasks[job_id].pc = "p90"
    /\ \/ /\ JOBS' = JobUpdate(job_id,
                        [status |-> "completed",
                         progress |-> 100,
                         result |-> [pdf_filepath |-> job_id,
                                     generated_text |-> tasks[job_id].result.text,
                                     tokens_input |-> tasks[job_id].result.tokens_input,
                                     tokens_output |-> tasks[job_id].result.tokens_output]])
          /\ tasks' = TaskMove(job_id, "completed", <<>>)
       \/ /\ tasks' = TaskMove(job_id, "except", [error |-> <<"cannot write file">>])
          /\ UNCHANGED JOBS
    /\ UNCHANGED <<UPLOADS, GENERATED_PDFS, served, requests, long>>
    /\ UNCHANGED docVars

\* Lines 363-366: GENERATED_PDFS[job_id] = {...}
TaskRegisterPdf(job_id) ==
    /\ tasks[job_id].pc = "completed"
    /\ GENERATED_PDFS' =
           [k \in DOMAIN GENERATED_PDFS \cup {job_id} |->
               IF k = job_id THEN [filepath |-> job_id, filename |-> job_id]
               ELSE GENERATED_PDFS[k]]
    /\ tasks' = TaskMove(job_id, "done", <<>>)
    /\ UNCHANGED <<UPLOADS, JOBS, served, requests, long>>
    /\ UNCHANGED docVars

\* A slip: the handler marks every job that is still processing.
TaskFailed_EveryJob(job_id) ==
    /\ tasks[job_id].pc = "except"
    /\ JOBS' = [k \in DOMAIN JOBS |->
                   IF JOBS[k].status = "processing"
                   THEN [JOBS[k] EXCEPT !.status = "failed",
                                        !.error = tasks[job_id].error]
                   ELSE JOBS[k]]
    /\ tasks' = TaskMove(job_id, "done", <<>>)
    /\ UNCHANGED <<UPLOADS, GENERATED_PDFS, served, requests, long>>
    /\ UNCHANGED docVars

\* Lines 368-375: the exception handler.
TaskFailed(job_id) ==
    /\ tasks[job_id].pc = "except"
    /\ JOBS' = JobUpdate(job_id, [status |-> "failed",
                                  error |-> tasks[job_id].error])
    /\ tasks' = TaskMove(job_id, "done", <<>>)
    /\ UNCHANGED <<UPLOADS, GENERATED_PDFS, served, requests, long>>
    /\ UNCHANGED docVars

\* A slip: the status of the job is not looked at.
download_pdf_AnyStatus(job_id, exists) ==
    IF job_id \notin DOMAIN JOBS THEN 404
    ELSE IF job_id \notin DOMAIN GENERATED_PDFS THEN 410
    ELSE IF ~exists THEN 410
    ELSE 200

\* download_pdf, lines 400-425: the status code of the answer; exists is
\* os.path.exists(filepath).
download_pdf(job_id, exists) ==
    IF job_id \notin DOMAIN JOBS THEN 404
    ELSE IF JOBS[job_id].status # "completed" THEN 400
    ELSE IF job_id \notin DOMAIN GENERATED_PDFS THEN 410
    ELSE IF ~exists THEN 410
    ELSE 200

\* A request GET /download/{job_id}, for a job id that is known or unknown.
DownloadPdf ==
    /\ tasks # <<>>
    /\ \E job_id \in 1..(MaxJobs + 1), exists \in BOOLEAN :
          served' = IF download_pdf(job_id, exists) = 200
                    THEN served \cup {job_id}
                    ELSE served
    /\ UNCHANGED <<UPLOADS, JOBS, GENERATED_PDFS, tasks, requests, long>>
    /\ UNCHANGED docVars

ServerNext ==
    \/ GenerateDocument
    \/ \E job_id \in DOMAIN tasks : TaskStart(job_id)
    \/ \E job_id \in DOMAIN tasks : TaskReadUpload(job_id)
    \/ \E job_id \in DOMAIN tasks : TaskCallProvider(job_id)
    \/ \E job_id \in DOMAIN tasks : TaskProgress70(job_id)
    \/ \E job_id \in DOMAIN tasks : TaskProgress75(job_id)
    \/ \E job_id \in DOMAIN tasks : TaskGeneratePdf(job_id)
    \/ \E job_id \in DOMAIN tasks : TaskComplete(job_id)
    \/ \E job_id \in DOMAIN tasks : TaskRegisterPdf(job_id)
    \/ \E job_id \in DOMAIN tasks : TaskFailed(job_id)
    \/ DownloadPdf

ServerSpec == ServerInit /\ [][ServerNext]_vars

\* The values the progress of a job takes: 0, 10, 20, 20 + (50 // length) *
\* chunks for a long generation, 70, 75, 90 and 100.
ProgressSteps ==
    {0, 10, 20, 70, 75, 90, 100}
        \cup UNION {{20 + (50 \div length) * chunks : chunks \in 1..length} : length \in 2..MaxLength}

\* C23: the progress of every job is one of the listed steps, an integer in
\* 0..100, and no step of the service decreases the progress of a job.
C23_ProgressInRangeAndMonotone ==
    /\ [](\A job_id \in DOMAIN JOBS :
             /\ JOBS[job_id].progress \in 0..100
             /\ JOBS[job_id].progress \in ProgressSteps)
    /\ [][\A job_id \in DOMAIN JOBS :
             JOBS'[job_id].progress >= JOBS[job_id].progress]_vars

\* A long generation of three chunks out of three has set the progress to
\* 20 + 16 * 3, and a job has completed.
C23_Witness ==
    /\ Len(JOBS) = 2
    /\ JOBS[1].progress = 68
    /\ tasks[1].pc = "called"
    /\ JOBS[2].progress = 100

\* The record of a job whose task has ended, as the task leaves it when it
\* runs alone: from the locals of the task only. A task that failed leaves
\* the progress written last before the call that raised.
AloneFinal(job_id) ==
    IF tasks[job_id].error = None
    THEN [upload_id |-> tasks[job_id].upload_id,
          status |-> "completed",
          progress |-> 100,
          error |-> None,
          result |-> [pdf_filepath |-> job_id,
                      generated_text |-> tasks[job_id].result.text,
                      tokens_input |-> tasks[job_id].result.tokens_input,
                      tokens_output |-> tasks[job_id].result.tokens_output]]
    ELSE [upload_id |-> tasks[job_id].upload_id,
          status |-> "failed",
          progress |-> CASE tasks[job_id].error = <<"PDF error">> -> 75
                         [] tasks[job_id].error = <<"cannot write file">> -> 90
                         [] OTHER -> 20,
          error |-> tasks[job_id].error,
          result |-> None]

\* The step is taken by the task of job_id.
StepOfTask(job_id) == tasks'[job_id] # tasks[job_id]

\* C24: a step of the task of a job changes no record of another job in
\* JOBS or GENERATED_PDFS and never changes UPLOADS, under every
\* interleaving of the tasks; and the record of a job whose task has ended
\* is the one the task leaves when it runs alone.
C24_TasksIndependent ==
    /\ [][/\ UPLOADS' = UPLOADS
          /\ \A job_id \in DOMAIN tasks :
                StepOfTask(job_id) =>
                   /\ \A k \in DOMAIN JOBS \ {job_id} : JOBS'[k] = JOBS[k]
                   /\ DOMAIN GENERATED_PDFS' \ {job_id} = DOMAIN GENERATED_PDFS \ {job_id}
                   /\ \A k \in DOMAIN GENERATED_PDFS \ {job_id} :
                         GENERATED_PDFS'[k] = GENERATED_PDFS[k]]_vars
    /\ [](\A job_id \in DOMAIN tasks :
             tasks[job_id].pc = "done" => JOBS[job_id] = AloneFinal(job_id))

\* The tasks of two jobs are both between their first and their last step,
\* one after a failed call.
C24_Witness ==
    /\ Len(tasks) = 2
    /\ tasks[1].pc = "p75"
    /\ tasks[2].pc = "except"
    /\ JOBS[2].status = "processing"

C27_DownloadOnlyCompleted ==
    /\ [](\A job_id \in 1..(MaxJobs + 1), exists \in BOOLEAN :
             /\ job_id \notin DOMAIN JOBS => download_pdf(job_id, exists) = 404
             /\ (job_id \in DOMAIN JOBS /\ JOBS[job_id].status \in {"processing", "failed"}) =>
                   download_pdf(job_id, exists) = 400
             /\ download_pdf(job_id, exists) = 200 =>
                   /\ job_id \in DOMAIN JOBS
                   /\ JOBS[job_id].status = "completed")
    /\ [](\A job_id \in served :
             /\ job_id \in DOMAIN JOBS
             /\ JOBS[job_id].status = "completed")
    /\ [][served' # served =>
             /\ JOBS' = JOBS
             /\ GENERATED_PDFS' = GENERATED_PDFS]_vars

\* The document of the first job has been served, the second job has failed
\* and is answered 400, and an unknown job id is answered 404.
C27_Witness ==
    /\ served = {1}
    /\ Len(JOBS) = 2
    /\ JOBS[2].status = "failed"
    /\ download_pdf(2, TRUE) = 400
    /\ download_pdf(3, TRUE) = 404

\* ------------------------------------------------------------------------
\* One job from the answer of the provider to the end of its task
\* ------------------------------------------------------------------------

\* The task of the only job is in client.generate_content (line 305): the
\* provider has answered with response, which the client is about to clean.
TaskInit ==
    /\ pc = "client"
    /\ response \in Responses
    /\ content = response
    /\ title \in Titles
    /\ document = <<>>
    /\ text = response
    /\ sub = 0
    /\ lines = <<>>
    /\ i = 0
    /\ story = <<>>
    /\ iter_start = 0
    /\ iter_rule = "none"
    /\ UPLOADS = StoredUploads
    /\ JOBS = <<[upload_id |-> None, status |-> "processing", progress |-> 20,
                 error |-> None, result |-> None]>>
    /\ GENERATED_PDFS = <<>>
    /\ tasks = <<[pc |-> "p20", upload_id |-> None, extracted_text |-> <<>>,
                  result |-> None, error |-> None]>>
    /\ served = {}
    /\ requests = <<>>
    /\ long = [pc |-> "idle"]

\* Lines 305-338 for length = 1: the client returns the cleaned text, the
\* progress is set to 70 and to 75, and generate_pdf is called with the
\* text.
TaskClientReturn(job_id) ==
    /\ tasks[job_id].pc = "p20"
    /\ ClientReturned
    /\ tasks' = TaskMove(job_id, "pdf",
                    [result |-> [text |-> strip(text), tokens_input |-> 10,
                                 tokens_output |-> 20]])
    /\ JOBS' = JobUpdate(job_id, [progress |-> 75])
    /\ UNCHANGED <<UPLOADS, GENERATED_PDFS, served, requests, long>>

\* Line 340: generate_pdf has returned.
TaskPdfReturned(job_id) ==
    /\ tasks[job_id].pc = "pdf"
    /\ pc = "done"
    /\ JOBS' = JobUpdate(job_id, [progress |-> 90])
    /\ tasks' = TaskMove(job_id, "p90", <<>>)
    /\ UNCHANGED <<UPLOADS, GENERATED_PDFS, served, requests, long>>
    /\ UNCHANGED docVars

TaskNext ==
    \/ TaskClientReturn(1)
    \/ Next
    \/ TaskPdfReturned(1)
    \/ TaskComplete(1)
    \/ TaskRegisterPdf(1)
    \/ TaskFailed(1)

TaskSpec == TaskInit /\ [][TaskNext]_vars

\* The loop of _format_content is at a line whose iteration leaves the
\* cursor where it is: table mode is entered (line 219) and its inner loop
\* takes no line, so i is not advanced. The lines never change, so the same
\* iteration is run again without end and _format_content does not return.
LoopStuck ==
    /\ pc = "scan"
    /\ i < Len(lines)
    /\ Branch(line) = "table"
    /\ CollectTable(lines, i, <<>>, <<>>).i = i

\* C22: the job reaches the status completed or failed: its task never
\* comes to a state in which the job is processing and the task can only
\* repeat the same iteration of the loop of _format_content for ever.
C22_JobReachesTerminal ==
    ~(JOBS[1].status = "processing" /\ tasks[1].pc = "pdf" /\ LoopStuck)

\* ------------------------------------------------------------------------
\* Text extraction: services/extraction.py
\* ------------------------------------------------------------------------

\* config.ALLOWED_EXTENSIONS
ALLOWED_EXTENSIONS == {".pdf", ".docx", ".txt", ".png", ".jpg", ".jpeg", ".bmp", ".tiff"}

\* An uploaded file: its name and extension (in lower case, as
\* get_file_extension gives it), whether it is larger than
\* MAX_FILE_SIZE_BYTES, and what the library that reads the format does with
\* it: it gives the text, gives no text, raises, or is not installed
\* (HAS_FITZ, HAS_TESSERACT).
UploadFile(filename, ext, oversize, native, t) ==
    [filename |-> filename, ext |-> ext, oversize |-> oversize,
     native |-> native, text |-> t]

TxtFile == UploadFile("a.txt", ".txt", FALSE, "text", <<"h", "i">>)
TxtUnreadable == UploadFile("gone.txt", ".txt", FALSE, "raises", <<>>)
DocxFile == UploadFile("b.docx", ".docx", FALSE, "text", <<"d", "o", "c">>)
DocxBroken == UploadFile("bad.docx", ".docx", FALSE, "raises", <<>>)
PdfFile == UploadFile("c.pdf", ".pdf", FALSE, "text", <<"p", "d", "f", "s">>)
PdfScanned == UploadFile("scan.pdf", ".pdf", FALSE, "empty", <<>>)
PdfBroken == UploadFile("bad.pdf", ".pdf", FALSE, "raises", <<>>)
PngFile == UploadFile("d.png", ".png", FALSE, "unavailable", <<>>)
JpgBroken == UploadFile("bad.jpg", ".jpg", FALSE, "raises", <<>>)
XyzFile == UploadFile("e.xyz", ".xyz", FALSE, "text", <<"x">>)
BigFile == UploadFile("big.txt", ".txt", TRUE, "text", <<"h", "i">>)

\* The text _extract_image returns when Tesseract is not installed (line
\* 131), shortened.
OcrMissingText == <<"[", "O", "C", "R", "]">>

Extracted(t, method) == [kind |-> "ok", text |-> t, extraction_method |-> method]

Raised(exception) == [kind |-> exception]

\* _extract_pdf_ocr is called at lines 70 and 80 and is defined nowhere:
\* the attribute lookup raises AttributeError.
extract_pdf_ocr(file) == Raised("AttributeError")

\* _extract_pdf, lines 50-80
extract_pdf(file) ==
    IF file.native = "text"
    THEN Extracted(file.text, "pdf_native")
    ELSE extract_pdf_ocr(file)

\* _extract_docx, lines 83-110
extract_docx(file) ==
    IF file.native = "raises"
    THEN Raised("ValueError")
    ELSE Extracted(file.text, "docx_native")

\* _extract_txt, lines 113-125
extract_txt(file) ==
    IF file.native = "raises"
    THEN Raised("ValueError")
    ELSE Extracted(file.text, "txt_native")

\* _extract_image, lines 128-155
extract_image(file) ==
    IF file.native = "unavailable"
    THEN Extracted(OcrMissingText, "image_ocr_missing")
    ELSE IF file.native = "raises"
    THEN Raised("ValueError")
    ELSE Extracted(file.text, "image_ocr")

\* TextExtractor.extract, lines 27-47
extract(file) ==
    IF file.ext = ".pdf" THEN extract_pdf(file)
    ELSE IF file.ext = ".docx" THEN extract_docx(file)
    ELSE IF file.ext = ".txt" THEN extract_txt(file)
    ELSE IF file.ext \in {".png", ".jpg", ".jpeg", ".bmp", ".tiff"} THEN extract_image(file)
    ELSE Raised("ValueError")

\* ------------------------------------------------------------------------
\* Uploads: upload_files of routers/document.py
\* ------------------------------------------------------------------------

\* The largest number of upload requests.
MaxRequests == 3

\* The files of a request: one text file; a PDF and a DOCX that cannot be
\* read; a text file and a file of an unsupported type; a scanned PDF; a
\* file that is too large; an image; a DOCX and a PDF; a PDF, an image and a
\* text file that cannot be read.
FileLists ==
    { <<TxtFile>>,
      <<PdfFile, DocxBroken>>,
      <<TxtFile, XyzFile>>,
      <<PdfScanned>>,
      <<BigFile>>,
      <<PngFile>>,
      <<DocxFile, PdfFile>>,
      <<PdfBroken>>,
      <<JpgBroken>>,
      <<TxtUnreadable>> }

\* sep.join(parts) for a separator of several characters
RECURSIVE joined(_, _)
joined(parts, sep) ==
    IF parts = <<>> THEN <<>>
    ELSE IF Len(parts) = 1 THEN parts[1]
    ELSE parts[1] \o sep \o joined(Tail(parts), sep)

\* "\n\n".join([f["extracted_text"] for f in uploaded_files])
combined_text(uploaded_files) ==
    joined([k \in 1..Len(uploaded_files) |-> uploaded_files[k].extracted_text],
           <<"\n", "\n">>)

\* The list the local uploaded_files of a request refers to: the list of the
\* record in UPLOADS when the request appends to an existing upload (line
\* 114 takes the list itself, not a copy), its own list otherwise.
UploadedFiles(req) ==
    IF req.alias THEN UPLOADS[req.upload_id].files ELSE req.uploaded_files

\* UPLOADS[upload_id] = record
UploadsPut(upload_id, record) ==
    [u \in DOMAIN UPLOADS \cup {upload_id} |->
        IF u = upload_id THEN record ELSE UPLOADS[u]]

\* The service has started: no upload.
UploadInit ==
    /\ pc = "idle"
    /\ response = <<>>
    /\ title = <<>>
    /\ document = <<>>
    /\ content = <<>>
    /\ text = <<>>
    /\ sub = 0
    /\ lines = <<>>
    /\ i = 0
    /\ story = <<>>
    /\ iter_start = 0
    /\ iter_rule = "none"
    /\ ServiceIdle

\* The request r ends with an error response of the given status code.
UploadRaise(r, req, code) ==
    [requests EXCEPT ![r] = [req EXCEPT !.pc = "done", !.status = code]]

\* upload_files from its start to the first await, lines 108-131: the
\* upload is found or a new id is drawn, and the extension of the first file
\* is tested. modified and extracted are history: whether a step of the
\* request has changed UPLOADS, and what the last call of
\* TextExtractor.extract gave.
UploadStart ==
    /\ Len(requests) < MaxRequests
    /\ \E files \in FileLists, given \in {None} \cup DOMAIN UPLOADS :
          LET existing == given # None /\ given \in DOMAIN UPLOADS
              req == [pc |-> "read",
                      upload_id |-> IF existing THEN given ELSE <<Len(requests) + 1>>,
                      files |-> files,
                      k |-> 1,
                      alias |-> existing,
                      uploaded_files |-> <<>>,
                      total_chars |-> IF existing THEN UPLOADS[given].total_chars ELSE 0,
                      status |-> 0,
                      modified |-> FALSE,
                      extracted |-> None]
          IN  requests' =
                 Append(requests,
                        IF files[1].ext \in ALLOWED_EXTENSIONS
                        THEN req
                        ELSE [req EXCEPT !.pc = "done", !.status = 400])
    /\ UNCHANGED <<UPLOADS, JOBS, GENERATED_PDFS, tasks, served, long>>
    /\ UNCHANGED docVars

\* upload_files from the return of await file.read() to the next await or to
\* the end, lines 131-201: the size is tested, the text is extracted, the
\* file is appended to uploaded_files; then the extension of the next file is
\* tested, or after the last file the record is stored.
UploadResume(r) ==
    /\ requests[r].pc = "read"
    /\ LET req == requests[r]
           file == req.files[req.k]
           got == extract(file)
           seen == [req EXCEPT !.extracted = got]
           file_info == [filename |-> file.filename,
                         extracted_text |-> got.text,
                         char_count |-> Len(got.text),
                         extraction_method |-> got.extraction_method]
           files_now == Append(UploadedFiles(req), file_info)
           total_chars == req.total_chars + Len(got.text)
           appended == IF req.alias
                       THEN [UPLOADS EXCEPT ![req.upload_id].files = files_now]
                       ELSE UPLOADS
           kept == [seen EXCEPT !.uploaded_files = IF req.alias THEN <<>> ELSE files_now,
                                !.total_chars = total_chars,
                                !.modified = req.modified \/ req.alias]
       IN  IF file.oversize
           THEN /\ requests' = UploadRaise(r, req, 413)
                /\ UNCHANGED UPLOADS
           ELSE IF got.kind = "ValueError"
           THEN /\ requests' = UploadRaise(r, seen, 422)
                /\ UNCHANGED UPLOADS
           ELSE IF got.kind # "ok"
           THEN /\ requests' = UploadRaise(r, seen, 500)
                /\ UNCHANGED UPLOADS
           ELSE IF req.k < Len(req.files)
           THEN /\ UPLOADS' = appended
                /\ requests' =
                      IF req.files[req.k + 1].ext \in ALLOWED_EXTENSIONS
                      THEN [requests EXCEPT ![r] = [kept EXCEPT !.k = req.k + 1]]
                      ELSE UploadRaise(r, kept, 400)
           ELSE /\ UPLOADS' = UploadsPut(req.upload_id,
                                 [files |-> files_now,
                                  combined_text |-> combined_text(files_now),
                                  total_chars |-> total_chars])
                /\ requests' = [requests EXCEPT ![r] =
                                   [kept EXCEPT !.pc = "done", !.status = 200,
                                                !.modified = TRUE]]
    /\ UNCHANGED <<JOBS, GENERATED_PDFS, tasks, served, long>>
    /\ UNCHANGED docVars

UploadNext ==
    \/ UploadStart
    \/ \E r \in DOMAIN requests : UploadResume(r)

UploadSpec == UploadInit /\ [][UploadNext]_vars

\* C25: every call of TextExtractor.extract returns the text or raises
\* ValueError, and it raises ValueError for a file of an unsupported type
\* and for a file of a supported type that the library cannot read.
C25_ExtractionErrorsTyped ==
    \A r \in DOMAIN requests :
        requests[r].extracted # None =>
           LET req == requests[r]
               file == req.files[req.k]
           IN  /\ req.extracted.kind \in {"ok", "ValueError"}
               /\ file.ext \notin ALLOWED_EXTENSIONS => req.extracted.kind = "ValueError"
               /\ file.native = "raises" => req.extracted.kind = "ValueError"

\* C28: a request that has ended with an error response has changed
\* nothing in UPLOADS.
C28_FailedUploadLeavesRegistry ==
    \A r \in DOMAIN requests :
        requests[r].status \in {400, 413, 422, 500} => ~requests[r].modified

\* sum(f["char_count"] for f in files)
RECURSIVE SumCharCount(_)
SumCharCount(files) ==
    IF files = <<>> THEN 0
    ELSE files[1].char_count + SumCharCount(Tail(files))

\* C29: in every record of UPLOADS total_chars is the sum of the char_count
\* of its files and combined_text is the texts of its files joined in
\* order.
C29_UploadRecordConsistent ==
    \A u \in DOMAIN UPLOADS :
        /\ UPLOADS[u].total_chars = SumCharCount(UPLOADS[u].files)
        /\ UPLOADS[u].combined_text = combined_text(UPLOADS[u].files)

\* ------------------------------------------------------------------------
\* generate_long_content of the provider clients (GeminiClient, OpenAIClient
\* and OpenRouterClient have the same body): one first call, then
\* continuation calls, each call being one generate_content.

\* The largest target_length a caller passes.
MaxTargetLength == 6

TargetLengths == 0..MaxTargetLength

\* target_length = max(1, min(target_length, 5))
clamp(target_length) ==
    MaxOf({1, MinOf({target_length, 5})})

\* What a generate_content that succeeds returns.
ChunkResults ==
    { [text |-> <<"A">>, tokens_input |-> 10, tokens_output |-> 20],
      [text |-> <<"B">>, tokens_input |-> 7, tokens_output |-> 0] }

\* What a generate_content that fails raises.
ChunkError == [raised |-> "ValueError"]

\* No call of generate_long_content has been made.
LongInit ==
    /\ pc = "idle"
    /\ response = <<>>
    /\ title = <<>>
    /\ document = <<>>
    /\ content = <<>>
    /\ text = <<>>
    /\ sub = 0
    /\ lines = <<>>
    /\ i = 0
    /\ story = <<>>
    /\ iter_start = 0
    /\ iter_rule = "none"
    /\ ServiceIdle

\* The call: the target length is clamped and the accumulators are set.
\* requested and calls are the history of the frame: the argument as it was
\* passed, and the outcome of every generate_content made, in order.
LongEnter(target_length) ==
    /\ long.pc = "idle"
    /\ long' = [pc |-> "first",
                requested |-> target_length,
                target_length |-> clamp(target_length),
                i |-> 0,
                all_text |-> <<>>,
                total_input_tokens |-> 0,
                total_output_tokens |-> 0,
                calls |-> <<>>,
                outcome |-> None]
    /\ UNCHANGED <<docVars, UPLOADS, JOBS, GENERATED_PDFS, tasks, served, requests>>

\* all_text.append(result["text"]) and the two token sums
Accumulate(frame, result) ==
    [frame EXCEPT !.all_text = Append(@, result.text),
                  !.total_input_tokens = @ + result.tokens_input,
                  !.total_output_tokens = @ + result.tokens_output,
                  !.calls = Append(@, result)]

\* The first generation, outside any try: its failure leaves the function.
LongFirst ==
    /\ long.pc = "first"
    /\ \/ \E result \in ChunkResults :
            long' = [Accumulate(long, result) EXCEPT !.pc = "loop", !.i = 1]
       \/ long' = [long EXCEPT !.pc = "raised",
                               !.calls = Append(@, ChunkError),
                               !.outcome = ChunkError]
    /\ UNCHANGED <<docVars, UPLOADS, JOBS, GENERATED_PDFS, tasks, served, requests>>

\* The loop with "continue" in place of "break": a failed continuation is
\* skipped and the next one is made.
LongContinue_NoBreak ==
    /\ long.pc = "loop"
    /\ long.i < long.target_length
    /\ \/ \E result \in ChunkResults :
            long' = [Accumulate(long, result) EXCEPT !.i = @ + 1]
       \/ long' = [long EXCEPT !.i = @ + 1,
                               !.calls = Append(@, ChunkError)]
    /\ UNCHANGED <<docVars, UPLOADS, JOBS, GENERATED_PDFS, tasks, served, requests>>

\* One turn of "for i in range(1, target_length)": the continuation call
\* inside try; except Exception: break.
LongContinue ==
    /\ long.pc = "loop"
    /\ long.i < long.target_length
    /\ \/ \E result \in ChunkResults :
            long' = [Accumulate(long, result) EXCEPT !.i = @ + 1]
       \/ long' = [long EXCEPT !.pc = "break",
                               !.calls = Append(@, ChunkError)]
    /\ UNCHANGED <<docVars, UPLOADS, JOBS, GENERATED_PDFS, tasks, served, requests>>

\* The return, after the loop has run out or was broken.
LongReturn ==
    /\ \/ long.pc = "loop" /\ long.i >= long.target_length
       \/ long.pc = "break"
    /\ long' = [long EXCEPT
                  !.pc = "returned",
                  !.outcome = [text |-> joined(long.all_text, <<"\n", "\n">>),
                               tokens_input |-> long.total_input_tokens,
                               tokens_output |-> long.total_output_tokens,
                               chunks_generated |-> Len(long.all_text)]]
    /\ UNCHANGED <<docVars, UPLOADS, JOBS, GENERATED_PDFS, tasks, served, requests>>

LongNext ==
    \/ \E target_length \in TargetLengths : LongEnter(target_length)
    \/ LongFirst
    \/ LongContinue
    \/ LongReturn

LongSpec == LongInit /\ [][LongNext]_vars

\* The calls that succeeded, in order.
Succeeded(calls) == SelectSeq(calls, LAMBDA c : c # ChunkError)

RECURSIVE SumInput(_)
SumInput(results) ==
    IF results = <<>> THEN 0
    ELSE results[1].tokens_input + SumInput(Tail(results))

RECURSIVE SumOutput(_)
SumOutput(results) ==
    IF results = <<>> THEN 0
    ELSE results[1].tokens_output + SumOutput(Tail(results))

\* C30: generate_long_content makes at most clamp(target_length, 1, 5)
\* calls; a call that fails is the last call made (no retry, no further
\* continuation); the function raises exactly when its first call failed;
\* what it returns holds the chunks of the successful calls, joined in
\* order, their number in chunks_generated, which lies in
\* 1..clamp(target_length, 1, 5), and the sums of their token counts.
C30_LongGenerationCalls ==
    long.pc # "idle" =>
        LET calls == long.calls
            ok    == Succeeded(calls)
            limit == clamp(long.requested)
        IN  /\ limit \in 1..5
            /\ Len(calls) <= limit
            /\ \A k \in 1..(Len(calls) - 1) : calls[k] # ChunkError
            /\ (calls # <<>> /\ calls[1] = ChunkError) =>
                   long.pc = "raised" /\ long.outcome = ChunkError
            /\ long.pc = "raised" => calls = <<ChunkError>>
            /\ long.pc = "break" =>
                   Len(calls) >= 2 /\ calls[Len(calls)] = ChunkError
            /\ long.pc = "returned" =>
                   /\ long.outcome.chunks_generated = Len(ok)
                   /\ Len(ok) \in 1..limit
                   /\ (Len(ok) < limit => calls[Len(calls)] = ChunkError)
                   /\ long.outcome.tokens_input = SumInput(ok)
                   /\ long.outcome.tokens_output = SumOutput(ok)
                   /\ long.outcome.text =
                         joined([k \in 1..Len(ok) |-> ok[k].text], <<"\n", "\n">>)

\* A call with target_length 6, clamped to 5, whose third call failed, has
\* returned the two chunks it had.
C30_Witness ==
    /\ long.pc = "returned"
    /\ long.requested = 6
    /\ Len(long.calls) = 3
    /\ long.calls[3] = ChunkError
    /\ long.outcome.chunks_generated = 2

====
